---- MODULE Spec2Model ----
(***************************************************************************)
(* IOFirebase (app/scripts/helper/firebase.js): the I/O web app's adapter  *)
(* around the Firebase client.  The component state is firebaseRef and     *)
(* clockOffset; the rest of the state is the part of the Firebase client   *)
(* and backend the component drives: the Firebase objects it created, the  *)
(* per-user data, the attached listeners and the on-disconnect writes.     *)
(*                                                                         *)
(* Every public method and every asynchronous callback is one action: the  *)
(* page runs them one at a time on its event loop.  A handler is computed  *)
(* as a function from a state record to a state record; the record also    *)
(* carries the client calls the handler issued (calls) and whether it      *)
(* threw (raised).                                                         *)
(*                                                                         *)
(* Firebase client contract used: the objects made by `new Firebase(url)`  *)
(* for one database share the client of that database, its credentials     *)
(* included: getAuth() of any of them is null until an authWithOAuthToken   *)
(* on that database succeeds, is from then on the credentials of the        *)
(* latest success, whose uid is the user the token was issued for, and is   *)
(* null again after unauth() through any of them.  A request that is        *)
(* rejected leaves the credentials as they are, and a request still pending *)
(* is answered whatever happens meanwhile.  Handlers are attached to a      *)
(* location of a database: off() on a location drops every handler          *)
(* attached there, through whichever object of that database.               *)
(* When a child of a location is added, changed or removed, by a write of   *)
(* this page or of another client, every handler attached at the location  *)
(* for that event runs once per attachment with a snapshot of the child     *)
(* (the removed value for child_removed).  The client holds the data of a   *)
(* location (synced) from the time the server has answered the first        *)
(* handler attached there until off(): when the answer arrives, and when a  *)
(* child_added handler is attached at a location already held, the handler  *)
(* runs once for every child present.  Changes at a location not yet held   *)
(* are not reported one by one: they are part of the data that arrives.     *)
(* Firebase.goOffline() and Firebase.goOnline() are recorded as the         *)
(* connection state asked for; nothing arrives from the server while the    *)
(* client is offline.                                                       *)
(***************************************************************************)
EXTENDS Integers, Sequences, FiniteSets, Bags, TLC

VARIABLES
  firebaseRef,   \* this.firebaseRef: index into conns, or Null
  clockOffset,   \* this.clockOffset
  conns,         \* the Firebase objects created so far, in creation order
  credentials,   \* credentials[url]: the uid the client of that database is authenticated as
  listeners,     \* handlers attached with ref.on(...)
  store,         \* backend data: store[user][attribute]
  synced,        \* locations whose data the Firebase client holds
  onDisconnect,  \* writes registered with onDisconnect().set(...)
  hidden,        \* document.hidden
  connection,    \* the last of Firebase.goOffline() / Firebase.goOnline() asked for
  shardUrls,     \* the configured list of database URLs of a shard selection
  shardHash,     \* the hash crc32 returned to that selection
  shardResult,   \* the index computed and the URL returned by that selection
  calls,         \* Firebase client calls issued by the last handler, in order
  invoked,       \* bag of the callback invocations made during the last handler
  raised,        \* the last handler threw a TypeError
  lastOp         \* the last handler run

vars ==
  <<firebaseRef, clockOffset, conns, credentials, listeners, synced, store, onDisconnect,
    hidden, connection, shardUrls, shardHash, shardResult, calls, invoked, raised, lastOp>>

---------------------------------------------------------------------------
(* Bounds and input sets *)

\* The longest list of database URLs a shard selection is tried with.
MaxShards == 3

\* The work explored: a store entry that differs from the initial data counts 4
\* under my_sessions and feedback and 6 under the other attributes, an auth()
\* call and a page that was hidden or taken offline count 5 each, an attached
\* subscription counts 2, a location whose data has arrived counts 1.
MaxOps == 12

Users == {"u1", "u2"}
Keys == {"abc", "xyz"}
Callbacks == {"cb1", "cb2"}
Timestamps == {0, 1000}
Offsets == {50, -20}

Null == 0
NoAuth == "null"
Undefined == [undefined |-> TRUE]
NoValue == [none |-> TRUE]
Absent == [absent |-> TRUE]
NullValue == [null |-> TRUE]

\* Firebase.ServerValue.TIMESTAMP, and a number, as values written to the store
ServerValueTIMESTAMP == [sv |-> "timestamp"]
Num(n) == [num |-> n]

MapAttributes == {"my_sessions", "feedback", "viewed_videos", "gcm_ids"}
LeafAttributes == {"last_activity_timestamp"}
Attributes == MapAttributes \cup LeafAttributes
EmptyMap == [k \in Keys |-> Absent]

\* What the backend holds when the page loads: data of earlier sessions and of
\* the user's other devices.
InitialStore ==
  [u \in Users |->
    [a \in Attributes |->
      CASE u = "u1" /\ a = "my_sessions" ->
             [EmptyMap EXCEPT !["xyz"] = [timestamp |-> Num(900), bookmarked |-> TRUE]]
        [] u = "u1" /\ a = "viewed_videos" ->
             [EmptyMap EXCEPT !["xyz"] = ServerValueTIMESTAMP]
        [] u = "u2" /\ a = "feedback" ->
             [EmptyMap EXCEPT !["abc"] = [timestamp |-> Num(900)]]
        [] u = "u2" /\ a = "gcm_ids" ->
             [EmptyMap EXCEPT !["xyz"] = [bool |-> TRUE]]
        [] a \in MapAttributes -> EmptyMap
        [] OTHER -> Absent]]

---------------------------------------------------------------------------
(* Shard selection *)

FIREBASE_DATABASES_URL == <<"https://iowa-2016-dev.firebaseio.com/">>

\* the databases the component connects to
Databases == {FIREBASE_DATABASES_URL[i] : i \in DOMAIN FIREBASE_DATABASES_URL}

\* crc32(userId): the hash as a string of hex digits, here as digit values
crc32(userId) ==
  CASE userId = "u1" -> <<4, 2, 4, 15, 9, 15, 7, 6>>
    [] userId = "u2" -> <<13, 11, 4, 6, 12, 14, 12, 12>>
    [] OTHER -> <<0>>

\* parseInt(digits, 16) % m, folded digit by digit so the value stays in range
RECURSIVE ParseIntMod(_, _, _)
ParseIntMod(digits, radix, m) ==
  IF digits = <<>> THEN 0
  ELSE (ParseIntMod(SubSeq(digits, 1, Len(digits) - 1), radix, m) * radix
        + digits[Len(digits)]) % m

\* urls[index] of a JavaScript array: undefined outside 0 .. length-1
At(urls, index) ==
  IF index + 1 \in DOMAIN urls THEN [url |-> urls[index + 1]] ELSE Undefined

\* mutant: the remainder is taken one past the length of the list
ShardIndex_OnePast(urls, hash) == ParseIntMod(hash, 16, Len(urls) + 1)

\* parseInt(hash, 16) % urls.length
ShardIndex(urls, hash) == ParseIntMod(hash, 16, Len(urls))

\* the body of _selectShard for a list of URLs and the hash of the user
SelectShardFrom(urls, hash) ==
  LET shardIndex == ShardIndex(urls, hash)
  IN [index |-> shardIndex, selected |-> At(urls, shardIndex)]

_selectShard(userId) ==
  SelectShardFrom(FIREBASE_DATABASES_URL, crc32(userId)).selected.url

\* Lists of database URLs and hashes a selection is tried with: the configured
\* list and longer ones, the hashes of the users and 8-digit hashes over three
\* hex digits (00000000 and ffffffff among them).
ShardPool ==
  <<"https://iowa-2016-dev.firebaseio.com/", "https://iowa-2016-dev-2.firebaseio.com/",
    "https://iowa-2016-dev-3.firebaseio.com/", "https://iowa-2016-dev-4.firebaseio.com/",
    "https://iowa-2016-dev-5.firebaseio.com/">>
ShardLists == {SubSeq(ShardPool, 1, n) : n \in 1..MaxShards}
HashLen == 8
HashDigits == {0, 7, 15}
Hashes == [1..HashLen -> HashDigits] \cup {crc32(userId) : userId \in Users}

---------------------------------------------------------------------------
(* The state record a handler works on *)

State ==
  [firebaseRef |-> firebaseRef, clockOffset |-> clockOffset, conns |-> conns,
   credentials |-> credentials, listeners |-> listeners, synced |-> synced, store |-> store,
   onDisconnect |-> onDisconnect,
   hidden |-> hidden, connection |-> connection,
   calls |-> <<>>, invoked |-> EmptyBag, raised |-> FALSE]

Becomes(s, op) ==
  /\ lastOp' = op
  /\ firebaseRef' = s.firebaseRef
  /\ clockOffset' = s.clockOffset
  /\ conns' = s.conns
  /\ credentials' = s.credentials
  /\ listeners' = s.listeners
  /\ synced' = s.synced
  /\ store' = s.store
  /\ onDisconnect' = s.onDisconnect
  /\ hidden' = s.hidden
  /\ connection' = s.connection
  /\ calls' = s.calls
  /\ invoked' = s.invoked
  /\ raised' = s.raised
  /\ UNCHANGED <<shardUrls, shardHash, shardResult>>

Call(op, ref, user, attribute, value) ==
  [op |-> op, ref |-> ref, user |-> user, attribute |-> attribute, value |-> value]

Issue(s, call) == [s EXCEPT !.calls = Append(@, call)]

Throw(s) == [s EXCEPT !.raised = TRUE]

\* the database an object is connected to
ShardOf(s, ref) == s.conns[ref].url

\* ref.getAuth(): the credentials the client holds for the database of the
\* object, NoAuth for null
getAuth(s, ref) == s.credentials[ShardOf(s, ref)]

\* this.firebaseRef.getAuth().uid throws when either part is null
CanReadUid(s) == s.firebaseRef # Null /\ getAuth(s, s.firebaseRef) # NoAuth

\* mutant: the credentials of the stored object are not looked at
isAuthed_RefOnly(s) == s.firebaseRef # Null

isAuthed(s) == s.firebaseRef # Null /\ getAuth(s, s.firebaseRef) # NoAuth

Truthy(timestamp) == timestamp # Undefined /\ timestamp.num # 0

---------------------------------------------------------------------------
(* Firebase client operations on the state record *)

\* an object for the database selected for userId: the requests it has pending,
\* whether its authentication was rejected, and the uid whose credentials
\* unauth() through it revoked
NewConn(userId) ==
  [userId |-> userId, url |-> _selectShard(userId), authPending |-> FALSE,
   authError |-> FALSE, offsetPending |-> FALSE, revoked |-> NoAuth]

\* new Firebase(url): one more object on the client of that database
NewFirebase(s, userId) ==
  LET ref == Len(s.conns) + 1
  IN Issue([s EXCEPT !.conns = Append(@, NewConn(userId)), !.firebaseRef = ref],
           Call("new Firebase", ref, userId, _selectShard(userId), NoValue))

\* ref.authWithOAuthToken('google', accessToken, cb): the outcome comes later
authWithOAuthToken(s, ref) ==
  Issue([s EXCEPT !.conns[ref].authPending = TRUE],
        Call("authWithOAuthToken", ref, s.conns[ref].userId, "", NoValue))

\* ref.child('/.info/serverTimeOffset').once('value', cb)
once(s, ref) ==
  Issue([s EXCEPT !.conns[ref].offsetPending = TRUE],
        Call("once", ref, "", ".info/serverTimeOffset", NoValue))

\* the handlers attached at users/userId/attribute of the database of ref
HandlersAt(s, ref, userId, attribute) ==
  {l \in s.listeners : /\ ShardOf(s, l.ref) = ShardOf(s, ref)
                       /\ l.user = userId /\ l.attribute = attribute}

\* the location users/userId/attribute of the database at url
Location(url, userId, attribute) == [url |-> url, user |-> userId, attribute |-> attribute]

\* ref.child(`users/${userId}/${attribute}`).off(): drops every handler there, and
\* the client lets go of the data; the call record notes how many handlers the
\* call detached
off(s, ref, userId, attribute) ==
  LET gone == HandlersAt(s, ref, userId, attribute)
  IN Issue([s EXCEPT !.listeners = @ \ gone,
                     !.synced = @ \ {Location(ShardOf(s, ref), userId, attribute)}],
           Call("off", ref, userId, attribute, [detached |-> Cardinality(gone)]))

\* ref.unauth(): the client of the database lets go of its credentials
unauth(s, ref) ==
  Issue([s EXCEPT !.credentials[ShardOf(s, ref)] = NoAuth,
                  !.conns[ref].revoked = getAuth(s, ref)],
        Call("unauth", ref, "", "", NoValue))

\* the attachments of one handler: the same callback attached again for the same
\* event at the same location through the same object
Attachments(s, ref, userId, attribute, event, callback) ==
  {l \in s.listeners : /\ l.ref = ref /\ l.user = userId /\ l.attribute = attribute
                       /\ l.event = event /\ l.callback = callback}

\* the handlers _registerToUpdates attaches: the callback gets the key of the
\* child, and its value for child_added and child_changed, null for child_removed
UpdateHandler(event, callback, dataSnapshot) ==
  [callback |-> callback, key |-> dataSnapshot.key,
   value |-> IF event = "child_removed" THEN NullValue ELSE dataSnapshot.val]

\* the event the client reports for a child whose value goes from old to new
EventOf(old, new) ==
  CASE old = Absent /\ new # Absent -> "child_added"
    [] old # Absent /\ new = Absent -> "child_removed"
    [] old # Absent /\ new # Absent /\ old # new -> "child_changed"
    [] OTHER -> "none"

\* the handlers attached at users/userId/attribute of the database at url
HandlersOn(s, url, userId, attribute) ==
  {l \in s.listeners : /\ ShardOf(s, l.ref) = url
                       /\ l.user = userId /\ l.attribute = attribute}

\* the client runs each handler of the pairs <<handler, dataSnapshot>> in due
RunHandlers(s, due) ==
  LET Run(d) == UpdateHandler(d[1].event, d[1].callback, d[2])
      runs == {Run(d) : d \in due}
  IN [s EXCEPT !.invoked = @ (+) [r \in runs |-> Cardinality({d \in due : Run(d) = r})]]

\* the client runs the child_added handlers among handlers once for every child
\* present at users/userId/attribute
Replay(s, handlers, userId, attribute) ==
  LET present == s.store[userId][attribute]
  IN RunHandlers(s, {<<d[1], [key |-> d[2], val |-> present[d[2]]]>> :
                       d \in {e \in handlers \X Keys :
                                e[1].event = "child_added" /\ present[e[2]] # Absent}})

\* mutant: a handler attached for an event takes the place of those attached before
on_Replaces(s, ref, userId, attribute, event, callback) ==
  Issue([s EXCEPT !.listeners =
           {l \in @ : ~(l.user = userId /\ l.attribute = attribute /\ l.event = event)}
           \cup {[ref |-> ref, user |-> userId, attribute |-> attribute,
                   event |-> event, callback |-> callback, reg |-> 1]}],
        Call("on", ref, userId, attribute, [event |-> event, callback |-> callback]))

\* ref.child(path).on(event, handler): one more attachment, next to those there;
\* at a location the client already holds, a child_added handler runs at once for
\* the children present
on(s, ref, userId, attribute, event, callback) ==
  LET reg == Cardinality(Attachments(s, ref, userId, attribute, event, callback)) + 1
      l == [ref |-> ref, user |-> userId, attribute |-> attribute,
            event |-> event, callback |-> callback, reg |-> reg]
      s1 == Issue([s EXCEPT !.listeners = @ \cup {l}],
                  Call("on", ref, userId, attribute, [event |-> event, callback |-> callback]))
  IN IF Location(ShardOf(s, ref), userId, attribute) \in s.synced
     THEN Replay(s1, {l}, userId, attribute)
     ELSE s1

\* the client runs the handlers attached at users/userId/attribute for the
\* children that differ between the maps old and new, if it holds the location
Report(s, url, userId, attribute, old, new) ==
  LET Snapshot(k) == [key |-> k, val |-> IF new[k] = Absent THEN old[k] ELSE new[k]]
      due == {<<d[1], Snapshot(d[2])>> :
                d \in {e \in HandlersOn(s, url, userId, attribute) \X Keys :
                         e[1].event = EventOf(old[e[2]], new[e[2]])}}
  IN IF Location(url, userId, attribute) \in s.synced
     THEN RunHandlers(s, due)
     ELSE s

\* ref.child(path).onDisconnect().set(value)
onDisconnectSet(s, ref, userId, attribute, value) ==
  Issue([s EXCEPT !.onDisconnect = @ \cup
           {[ref |-> ref, user |-> userId, attribute |-> attribute, value |-> value]}],
        Call("onDisconnect.set", ref, userId, attribute, value))

\* ref.child(path).set(value): replaces what is stored at the location
RefSet(s, ref, userId, attribute, value) ==
  Issue([s EXCEPT !.store[userId][attribute] = value],
        Call("set", ref, userId, attribute, value))

\* ref.child(path).update(value): writes the children named in value, keeps the
\* others, and reports the change to the handlers attached at the location
RefUpdate(s, ref, userId, attribute, value) ==
  LET old == s.store[userId][attribute]
      new == [k \in Keys |-> IF k \in DOMAIN value THEN value[k] ELSE old[k]]
      s1 == Issue([s EXCEPT !.store[userId][attribute] = new],
                  Call("update", ref, userId, attribute, value))
  IN Report(s1, ShardOf(s, ref), userId, attribute, old, new)

---------------------------------------------------------------------------
(* IOFirebase methods *)

\* typeof document.hidden !== 'undefined': the browser reports page visibility,
\* and the constructor has registered its visibilitychange listener
VisibilitySupported == TRUE

goOffline(s) ==
  Issue([s EXCEPT !.connection = "offline"], Call("Firebase.goOffline", Null, "", "", NoValue))

goOnline(s) ==
  Issue([s EXCEPT !.connection = "online"], Call("Firebase.goOnline", Null, "", "", NoValue))

\* mutant: the connection is toggled only while authenticated
visibilitychange_WhenAuthed(s) ==
  IF isAuthed(s) THEN (IF s.hidden THEN goOffline(s) ELSE goOnline(s)) ELSE s

\* the listener the constructor registers on document
visibilitychange(s) ==
  IF s.hidden THEN goOffline(s) ELSE goOnline(s)

\* mutant: the offset is read only once credentials are held
_updateClockOffset_WhenAuthed(s) ==
  IF isAuthed(s) THEN once(s, s.firebaseRef) ELSE s

_updateClockOffset(s) ==
  IF s.firebaseRef # Null THEN once(s, s.firebaseRef) ELSE s

_setFirebaseUserData(s, attribute, value) ==
  IF isAuthed(s)
  THEN LET userId == getAuth(s, s.firebaseRef)
       IN RefSet(s, s.firebaseRef, userId, attribute, value)
  ELSE s

\* mutant: guards on the stored object alone and writes under the user given to auth()
_updateFirebaseUserData_NoAuthCheck(s, attribute, value) ==
  IF s.firebaseRef # Null
  THEN RefUpdate(s, s.firebaseRef, s.conns[s.firebaseRef].userId, attribute, value)
  ELSE s

\* mutant: replaces the attribute by the given value, as ref.set(value) would
_updateFirebaseUserData_Replace(s, attribute, value) ==
  IF isAuthed(s)
  THEN LET userId == getAuth(s, s.firebaseRef)
       IN Issue([s EXCEPT !.store[userId][attribute] =
                   [k \in Keys |-> IF k \in DOMAIN value THEN value[k] ELSE Absent]],
                Call("update", s.firebaseRef, userId, attribute, value))
  ELSE s

_updateFirebaseUserData(s, attribute, value) ==
  IF isAuthed(s)
  THEN LET userId == getAuth(s, s.firebaseRef)
       IN RefUpdate(s, s.firebaseRef, userId, attribute, value)
  ELSE s

_bumpLastActivityTimestamp(s) ==
  IF ~CanReadUid(s) THEN Throw(s)
  ELSE LET userId == getAuth(s, s.firebaseRef)
           s1 == onDisconnectSet(s, s.firebaseRef, userId, "last_activity_timestamp",
                                 ServerValueTIMESTAMP)
       IN _setFirebaseUserData(s1, "last_activity_timestamp", ServerValueTIMESTAMP)

\* mutant: detaches the listeners of the object it replaces before replacing it
auth_DetachFirst(s, userId) ==
  LET s0 == IF isAuthed(s)
            THEN LET uid == getAuth(s, s.firebaseRef)
                 IN off(off(s, s.firebaseRef, uid, "my_sessions"),
                        s.firebaseRef, uid, "feedback")
            ELSE s
      s1 == NewFirebase(s0, userId)
      s2 == authWithOAuthToken(s1, s1.firebaseRef)
  IN _updateClockOffset(s2)

auth(s, userId) ==
  LET s1 == NewFirebase(s, userId)
      s2 == authWithOAuthToken(s1, s1.firebaseRef)
  IN _updateClockOffset(s2)

\* the callback given to authWithOAuthToken
authCallback(s, error) ==
  IF error THEN s ELSE _bumpLastActivityTimestamp(s)

\* the callback given to once('value', ...)
offsetCallback(s, snapVal) == [s EXCEPT !.clockOffset = snapVal]

\* mutant: revokes the credentials before detaching the listeners
unAuth_RevokeFirst(s) ==
  IF s.firebaseRef # Null
  THEN IF ~CanReadUid(s) THEN Throw(s)
       ELSE LET userId == getAuth(s, s.firebaseRef)
                s1 == unauth(s, s.firebaseRef)
                s2 == off(s1, s.firebaseRef, userId, "my_sessions")
                s3 == off(s2, s.firebaseRef, userId, "feedback")
            IN [s3 EXCEPT !.firebaseRef = Null]
  ELSE s

unAuth(s) ==
  IF s.firebaseRef # Null
  THEN IF ~CanReadUid(s) THEN Throw(s)
       ELSE LET userId == getAuth(s, s.firebaseRef)
                s1 == off(s, s.firebaseRef, userId, "my_sessions")
                s2 == off(s1, s.firebaseRef, userId, "feedback")
                s3 == unauth(s2, s.firebaseRef)
            IN [s3 EXCEPT !.firebaseRef = Null]
  ELSE s

\* mutant: guards on the stored object alone and subscribes for the user given to auth()
_registerToUpdates_WhenStored(s, attribute, callback) ==
  IF s.firebaseRef # Null
  THEN LET userId == s.conns[s.firebaseRef].userId
           s1 == on(s, s.firebaseRef, userId, attribute, "child_added", callback)
           s2 == on(s1, s.firebaseRef, userId, attribute, "child_changed", callback)
       IN on(s2, s.firebaseRef, userId, attribute, "child_removed", callback)
  ELSE s

_registerToUpdates(s, attribute, callback) ==
  IF isAuthed(s)
  THEN LET userId == getAuth(s, s.firebaseRef)
           s1 == on(s, s.firebaseRef, userId, attribute, "child_added", callback)
           s2 == on(s1, s.firebaseRef, userId, attribute, "child_changed", callback)
       IN on(s2, s.firebaseRef, userId, attribute, "child_removed", callback)
  ELSE s

registerToSessionUpdates(s, callback) == _registerToUpdates(s, "my_sessions", callback)

registerToFeedbackUpdates(s, callback) == _registerToUpdates(s, "feedback", callback)

toggleSession(s, sessionUUID, bookmarked, timestamp) ==
  LET value == sessionUUID :>
        [timestamp |-> IF Truthy(timestamp) THEN Num(timestamp.num + s.clockOffset)
                       ELSE ServerValueTIMESTAMP,
         bookmarked |-> bookmarked]
  IN _updateFirebaseUserData(s, "my_sessions", value)

markSessionRated(s, sessionUUID, timestamp) ==
  LET value == sessionUUID :>
        [timestamp |-> IF Truthy(timestamp) THEN Num(timestamp.num + s.clockOffset)
                       ELSE ServerValueTIMESTAMP]
  IN _updateFirebaseUserData(s, "feedback", value)

markVideoAsViewed(s, videoId, timestamp) ==
  LET value == videoId :>
        (IF Truthy(timestamp) THEN Num(timestamp.num + s.clockOffset)
         ELSE ServerValueTIMESTAMP)
  IN _updateFirebaseUserData(s, "viewed_videos", value)

addGcmId(s, gcmId) ==
  LET value == gcmId :> [bool |-> TRUE]
  IN _updateFirebaseUserData(s, "gcm_ids", value)

---------------------------------------------------------------------------
(* Actions: one per public method and per asynchronous callback *)

TimestampArgs == {Num(t) : t \in Timestamps} \cup {Undefined}


\* entries written by the page or changed by another client, under the attributes
\* that can be subscribed to and under the others, and subscriptions attached
WatchedAttributes == {"my_sessions", "feedback"}
StoreEntriesOf(attributes) ==
  Cardinality({<<u, a, k>> \in Users \X attributes \X Keys :
                 store[u][a][k] # InitialStore[u][a][k]})
StoreEntries == StoreEntriesOf(MapAttributes \ WatchedAttributes)
WatchedEntries == StoreEntriesOf(WatchedAttributes)
Subscriptions ==
  Cardinality({<<l.ref, l.attribute, l.callback, l.reg>> : l \in listeners})
\* a page that was hidden, or whose connection was asked to change
Hidings == IF hidden \/ connection # "initial" THEN 5 ELSE 0
Ops ==
  5 * Len(conns) + 6 * StoreEntries + 4 * WatchedEntries + 2 * Subscriptions
    + Cardinality(synced) + Hidings

\* a call that takes effect is explored only while the total stays within the bound;
\* a change made by another client is explored while one unit is left
MayAuth == Ops + 5 <= MaxOps
MayChange == Ops + 1 <= MaxOps
MayHide == Hidings > 0 \/ Ops + 5 <= MaxOps
MaySync == Ops + 1 <= MaxOps
MayWrite == ~isAuthed(State) \/ Ops + 6 <= MaxOps
MayWriteWatched == ~isAuthed(State) \/ Ops + 4 <= MaxOps
MaySubscribe == ~isAuthed(State) \/ Ops + 2 <= MaxOps

Init ==
  /\ firebaseRef = Null
  /\ clockOffset = 0
  /\ conns = <<>>
  /\ credentials = [url \in Databases |-> NoAuth]
  /\ listeners = {}
  /\ synced = {}
  /\ store = InitialStore
  /\ onDisconnect = {}
  /\ hidden \in BOOLEAN
  /\ connection = "initial"
  /\ shardUrls = FIREBASE_DATABASES_URL
  /\ shardHash = <<>>
  /\ shardResult = NoValue
  /\ calls = <<>>
  /\ invoked = EmptyBag
  /\ raised = FALSE
  /\ lastOp = "constructor"

Auth ==
  \E userId \in Users :
    /\ MayAuth
    /\ Becomes(auth(State, userId), "auth")

\* the backend accepts the token: the client of the database of the object holds
\* the credentials of its user from now on, then the callback runs
AuthSucceedsOn(ref) ==
  /\ conns[ref].authPending
  /\ LET s == [State EXCEPT !.conns[ref].authPending = FALSE,
                            !.credentials[ShardOf(State, ref)] = conns[ref].userId]
     IN Becomes(authCallback(s, FALSE), "authCallback")

AuthSucceeds == \E ref \in DOMAIN conns : AuthSucceedsOn(ref)

\* the backend rejects the token: the callback runs with an error
AuthFailsOn(ref) ==
  /\ conns[ref].authPending
  /\ LET s == [State EXCEPT !.conns[ref].authPending = FALSE,
                            !.conns[ref].authError = TRUE]
     IN Becomes(authCallback(s, TRUE), "authCallback")

AuthFails == \E ref \in DOMAIN conns : AuthFailsOn(ref)

\* the one-shot read of /.info/serverTimeOffset is answered with snapVal
OffsetDeliveredOn(ref, snapVal) ==
  /\ conns[ref].offsetPending
  /\ LET s == [State EXCEPT !.conns[ref].offsetPending = FALSE]
     IN Becomes(offsetCallback(s, snapVal), "offsetCallback")

OffsetDelivered ==
  \E ref \in DOMAIN conns, snapVal \in Offsets : OffsetDeliveredOn(ref, snapVal)

UnAuth == Becomes(unAuth(State), "unAuth")

RegisterToSessionUpdatesWith(callback) ==
  MaySubscribe /\ Becomes(registerToSessionUpdates(State, callback), "subscribe")

RegisterToSessionUpdates ==
  \E callback \in Callbacks : RegisterToSessionUpdatesWith(callback)

RegisterToFeedbackUpdatesWith(callback) ==
  MaySubscribe /\ Becomes(registerToFeedbackUpdates(State, callback), "subscribe")

RegisterToFeedbackUpdates ==
  \E callback \in Callbacks : RegisterToFeedbackUpdatesWith(callback)

ToggleSessionWith(sessionUUID, bookmarked, timestamp) ==
  MayWriteWatched /\ Becomes(toggleSession(State, sessionUUID, bookmarked, timestamp), "write")

ToggleSession ==
  \E sessionUUID \in Keys, bookmarked \in BOOLEAN, timestamp \in TimestampArgs :
    ToggleSessionWith(sessionUUID, bookmarked, timestamp)

MarkSessionRatedWith(sessionUUID, timestamp) ==
  MayWriteWatched /\ Becomes(markSessionRated(State, sessionUUID, timestamp), "write")

MarkSessionRated ==
  \E sessionUUID \in Keys, timestamp \in TimestampArgs :
    MarkSessionRatedWith(sessionUUID, timestamp)

MarkVideoAsViewedWith(videoId, timestamp) ==
  MayWrite /\ Becomes(markVideoAsViewed(State, videoId, timestamp), "write")

MarkVideoAsViewed ==
  \E videoId \in Keys, timestamp \in TimestampArgs :
    MarkVideoAsViewedWith(videoId, timestamp)

AddGcmIdWith(gcmId) ==
  MayWrite /\ Becomes(addGcmId(State, gcmId), "write")

AddGcmId == \E gcmId \in Keys : AddGcmIdWith(gcmId)

\* the values another client of the user writes under a watched attribute
RemoteValues(attribute) ==
  IF attribute = "my_sessions"
  THEN {Absent, [timestamp |-> Num(900), bookmarked |-> TRUE],
        [timestamp |-> Num(900), bookmarked |-> FALSE]}
  ELSE {Absent, [timestamp |-> Num(900)], [timestamp |-> Num(950)]}

\* the server answers the first handler attached at users/userId/attribute: the
\* client holds the data from now on and runs the child_added handlers attached
\* there for the children present
InitialDataAt(userId, attribute) ==
  LET url == _selectShard(userId)
      handlers == HandlersOn(State, url, userId, attribute)
      s == [State EXCEPT !.synced = @ \cup {Location(url, userId, attribute)}]
  IN /\ MaySync
     /\ connection # "offline"
     /\ handlers # {}
     /\ Location(url, userId, attribute) \notin synced
     /\ Becomes(Replay(s, handlers, userId, attribute), "initialData")

InitialData ==
  \E userId \in Users, attribute \in {"my_sessions", "feedback"} :
    InitialDataAt(userId, attribute)

\* another client adds, changes or removes users/userId/attribute/key, and the
\* Firebase client of the page runs the handlers attached there; only changes at
\* locations the client holds are explored, the page does not see the others
RemoteChangeAt(userId, attribute, key, value) ==
  /\ MayChange
  /\ connection # "offline"
  /\ Location(_selectShard(userId), userId, attribute) \in synced
  /\ value # store[userId][attribute][key]
  /\ LET old == store[userId][attribute]
         new == [old EXCEPT ![key] = value]
         s == [State EXCEPT !.store[userId][attribute] = new]
     IN Becomes(Report(s, _selectShard(userId), userId, attribute, old, new), "childEvent")

RemoteChange ==
  \E userId \in Users, attribute \in {"my_sessions", "feedback"}, key \in Keys :
    \E value \in RemoteValues(attribute) : RemoteChangeAt(userId, attribute, key, value)

\* a caller runs the static IOFirebase.goOffline() or IOFirebase.goOnline()
GoOffline == MayHide /\ Becomes(goOffline(State), "goOffline")

GoOnline == MayHide /\ Becomes(goOnline(State), "goOnline")

\* the page becomes hidden or visible and the browser fires visibilitychange
VisibilityChange ==
  /\ VisibilitySupported
  /\ MayHide
  /\ LET s == [State EXCEPT !.hidden = ~hidden]
     IN Becomes(visibilitychange(s), "visibilitychange")

Next ==
  \/ VisibilityChange
  \/ GoOffline
  \/ GoOnline
  \/ InitialData
  \/ RemoteChange
  \/ Auth
  \/ AuthSucceeds
  \/ AuthFails
  \/ OffsetDelivered
  \/ UnAuth
  \/ RegisterToSessionUpdates
  \/ RegisterToFeedbackUpdates
  \/ ToggleSession
  \/ MarkSessionRated
  \/ MarkVideoAsViewed
  \/ AddGcmId

Spec == Init /\ [][Next]_vars

---------------------------------------------------------------------------
(* Shard selection on its own: _selectShard is static and reads nothing of the
   component, so it is applied to every list and hash of the input sets *)

ShardInit ==
  /\ firebaseRef = Null
  /\ clockOffset = 0
  /\ conns = <<>>
  /\ credentials = [url \in Databases |-> NoAuth]
  /\ listeners = {}
  /\ synced = {}
  /\ store = InitialStore
  /\ onDisconnect = {}
  /\ hidden = FALSE
  /\ connection = "initial"
  /\ shardUrls \in ShardLists
  /\ shardHash \in Hashes
  /\ shardResult = NoValue
  /\ calls = <<>>
  /\ invoked = EmptyBag
  /\ raised = FALSE
  /\ lastOp = "constructor"

SelectShard ==
  /\ shardResult = NoValue
  /\ shardResult' = SelectShardFrom(shardUrls, shardHash)
  /\ lastOp' = "_selectShard"
  /\ UNCHANGED <<firebaseRef, clockOffset, conns, credentials, listeners, synced, store,
                 onDisconnect, hidden, connection, shardUrls, shardHash, calls, invoked,
                 raised>>

ShardNext == SelectShard

ShardSpec == ShardInit /\ [][ShardNext]_vars

---------------------------------------------------------------------------
(* Vocabulary of the properties *)

\* what the component and the backend hold, without the record of the last handler
Backend == <<firebaseRef, clockOffset, conns, credentials, listeners, store, onDisconnect>>

\* a call of one of the four mutation methods, of one of the two subscribe methods
MutationCall == ToggleSession \/ MarkSessionRated \/ MarkVideoAsViewed \/ AddGcmId
SubscribeCall == RegisterToSessionUpdates \/ RegisterToFeedbackUpdates

\* the stored object holds credentials
StoredHoldsCredentials ==
  firebaseRef # Null /\ credentials[conns[firebaseRef].url] # NoAuth

\* the authentication of the stored object was answered with an error
StoredAuthFailed == firebaseRef # Null /\ conns[firebaseRef].authError

TrackedAttributes == {"my_sessions", "feedback"}
TrackedListeners == {l \in listeners : l.attribute \in TrackedAttributes}

\* the timestamp the claim expects for a timestamp argument
ResolvedTimestamp(timestamp) ==
  IF timestamp = Undefined THEN ServerValueTIMESTAMP ELSE Num(timestamp.num + clockOffset)

\* store' differs from store at most at users/user/attribute/key
OnlyEntryChanges(user, attribute, key) ==
  \A u \in Users, a \in Attributes :
    IF a \in MapAttributes
    THEN \A k \in Keys :
           <<u, a, k>> # <<user, attribute, key>> => store'[u][a][k] = store[u][a][k]
    ELSE store'[u][a] = store[u][a]

---------------------------------------------------------------------------
(* C1 *)

\* C1 (as claimed): whenever isAuthed() is false, a call of unAuth() issues no
\* backend call, changes no component state and raises no error.
C1_UnAuthWhileNotAuthedDoesNothing ==
  [][(~isAuthed(State) /\ UnAuth) =>
       (UNCHANGED Backend /\ calls' = <<>> /\ ~raised')]_vars

---------------------------------------------------------------------------
(* C2 *)

C2_WitnessAfterUnAuth ==
  /\ lastOp = "authCallback"
  /\ firebaseRef = Null
  /\ \E url \in Databases : credentials[url] # NoAuth

---------------------------------------------------------------------------
(* C3 *)

\* C3 (as claimed): toggleSession, markSessionRated and markVideoAsViewed, called
\* while authenticated, write timestamp + clockOffset for every numeric timestamp
\* argument, 0 included, and the server-timestamp placeholder when it is omitted.
C3_TimestampIsArgumentPlusOffset ==
  [][\A key \in Keys, timestamp \in TimestampArgs :
       LET uid == getAuth(State, firebaseRef)
       IN /\ \A bookmarked \in BOOLEAN :
               (isAuthed(State) /\ ToggleSessionWith(key, bookmarked, timestamp)) =>
                 store'[uid]["my_sessions"][key] =
                   [timestamp |-> ResolvedTimestamp(timestamp), bookmarked |-> bookmarked]
          /\ (isAuthed(State) /\ MarkSessionRatedWith(key, timestamp)) =>
               store'[uid]["feedback"][key] = [timestamp |-> ResolvedTimestamp(timestamp)]
          /\ (isAuthed(State) /\ MarkVideoAsViewedWith(key, timestamp)) =>
               store'[uid]["viewed_videos"][key] = ResolvedTimestamp(timestamp)]_vars

---------------------------------------------------------------------------
(* C4 *)

\* C4: whenever isAuthed() is false, a call of a mutation or subscribe method
\* issues no backend call and attaches no listener: the store, the listeners, the
\* stored object and the clock offset are unchanged, and nothing is raised.
C4_CallsWhileNotAuthedDoNothing ==
  [][(~isAuthed(State) /\ (MutationCall \/ SubscribeCall)) =>
       (UNCHANGED Backend /\ calls' = <<>> /\ ~raised')]_vars

\* a mutation method was just called while an object is stored that holds no
\* credentials (its authentication is pending or has failed)
C4_Witness ==
  /\ lastOp = "write"
  /\ firebaseRef # Null
  /\ ~isAuthed(State)
  /\ calls = <<>>

---------------------------------------------------------------------------
(* C5 *)

---------------------------------------------------------------------------
(* C6 *)

\* C6 (as claimed): after any sequence of auth(), subscribe and unAuth() calls,
\* no my_sessions or feedback listener is attached once unAuth() has returned.
C6_NoListenerAfterUnAuth ==
  (lastOp = "unAuth" /\ ~raised) => TrackedListeners = {}

---------------------------------------------------------------------------
(* C7 *)

\* C7: a mutation method called while authenticated changes in the store only the
\* entry under the key it was given, inside its own attribute of the
\* authenticated user, and leaves the listeners, the objects and the clock offset
\* alone; toggleSession("abc", true, 1000) with offset 50 sets my_sessions/abc to
\* {timestamp: 1050, bookmarked: true}.
C7_MutationChangesOnlyItsEntry ==
  [][\A key \in Keys :
       LET uid == getAuth(State, firebaseRef)
           Rest == UNCHANGED <<firebaseRef, clockOffset, conns, listeners, onDisconnect>>
       IN /\ \A bookmarked \in BOOLEAN, timestamp \in TimestampArgs :
               (isAuthed(State) /\ ToggleSessionWith(key, bookmarked, timestamp)) =>
                 /\ OnlyEntryChanges(uid, "my_sessions", key) /\ Rest
                 /\ store'[uid]["my_sessions"][key].bookmarked = bookmarked
                 /\ (key = "abc" /\ bookmarked /\ timestamp = Num(1000) /\ clockOffset = 50) =>
                      store'[uid]["my_sessions"]["abc"] =
                        [timestamp |-> Num(1050), bookmarked |-> TRUE]
          /\ \A timestamp \in TimestampArgs :
               /\ (isAuthed(State) /\ MarkSessionRatedWith(key, timestamp)) =>
                    (OnlyEntryChanges(uid, "feedback", key) /\ Rest
                     /\ store'[uid]["feedback"][key] # Absent)
               /\ (isAuthed(State) /\ MarkVideoAsViewedWith(key, timestamp)) =>
                    (OnlyEntryChanges(uid, "viewed_videos", key) /\ Rest
                     /\ store'[uid]["viewed_videos"][key] # Absent)
          /\ (isAuthed(State) /\ AddGcmIdWith(key)) =>
               (OnlyEntryChanges(uid, "gcm_ids", key) /\ Rest
                /\ store'[uid]["gcm_ids"][key] = [bool |-> TRUE])]_vars

\* toggleSession("abc", true, 1000) has just run for u1 with offset 50, next to
\* the session entry xyz that was there before
C7_Witness ==
  /\ lastOp = "write"
  /\ Len(calls) = 1
  /\ calls[1].op = "update" /\ calls[1].user = "u1" /\ calls[1].attribute = "my_sessions"
  /\ DOMAIN calls[1].value = {"abc"}
  /\ store["u1"]["my_sessions"]["abc"] = [timestamp |-> Num(1050), bookmarked |-> TRUE]
  /\ store["u1"]["my_sessions"]["xyz"] = InitialStore["u1"]["my_sessions"]["xyz"]
  /\ store["u1"]["my_sessions"]["xyz"] # Absent

\* toggleSession has just written an entry of u1 while a callback was registered
\* for u1's sessions: the listeners are still attached
C7_WitnessWithListeners ==
  /\ lastOp = "write"
  /\ Len(calls) = 1
  /\ calls[1].op = "update" /\ calls[1].user = "u1" /\ calls[1].attribute = "my_sessions"
  /\ \E l \in listeners : l.user = "u1" /\ l.attribute = "my_sessions"

---------------------------------------------------------------------------
(* C8 *)

\* C8 (as claimed): when the authentication callback reports an error, the
\* component issues no backend call (no new authentication request, no
\* last-activity write, no on-disconnect write) and raises nothing; after the
\* error callback of the stored object's auth() call isAuthed() is false, and
\* while that object is stored isAuthed() stays false and every mutation and
\* subscribe call does nothing, until auth() is called again.
C8_AuthErrorLeavesUnauthenticated ==
  [][/\ AuthFails =>
          /\ calls' = <<>> /\ ~raised'
          /\ UNCHANGED <<firebaseRef, clockOffset, credentials, listeners, store, onDisconnect>>
          /\ Len(conns') = Len(conns)
          /\ \A ref \in DOMAIN conns : conns'[ref].authPending => conns[ref].authPending
     /\ (\A ref \in DOMAIN conns :
           (AuthFailsOn(ref) /\ ref = firebaseRef) => ~isAuthed(State)')
     /\ StoredAuthFailed =>
          /\ ~isAuthed(State)
          /\ (MutationCall \/ SubscribeCall) => (UNCHANGED Backend /\ calls' = <<>>)
          /\ ~Auth => ~isAuthed(State)']_vars

---------------------------------------------------------------------------
(* C9 *)

---------------------------------------------------------------------------
(* C10 *)

\* C10: every auth() call issues exactly one one-shot read of the server-time
\* offset, on the object it has just created; the read stays pending whatever
\* the outcome of the authentication; when it is answered, clockOffset becomes
\* the delivered value.
C10_OneOffsetReadPerAuth ==
  [][/\ Auth =>
          LET new == Len(conns) + 1
              reads == {i \in DOMAIN calls' : calls'[i].op = "once"}
          IN /\ firebaseRef' = new
             /\ Cardinality(reads) = 1
             /\ \A i \in reads : /\ calls'[i].ref = new
                                 /\ calls'[i].attribute = ".info/serverTimeOffset"
             /\ conns'[new].offsetPending
             /\ \A ref \in DOMAIN conns : conns'[ref].offsetPending = conns[ref].offsetPending
     /\ (AuthSucceeds \/ AuthFails) =>
          \A ref \in DOMAIN conns : conns'[ref].offsetPending = conns[ref].offsetPending
     /\ \A ref \in DOMAIN conns, snapVal \in Offsets :
          OffsetDeliveredOn(ref, snapVal) =>
            (clockOffset' = snapVal /\ ~conns'[ref].offsetPending)]_vars

\* an offset read has just been answered with 50, after the authentication of the
\* same auth() call had failed
C10_Witness ==
  /\ lastOp = "offsetCallback"
  /\ clockOffset = 50
  /\ StoredAuthFailed

---------------------------------------------------------------------------
(* C11 *)

\* the objects this component created that hold credentials
CredentialHolders == {ref \in DOMAIN conns : getAuth(State, ref) # NoAuth}

\* C11 (as claimed): after any sequence of auth(), unAuth() and authentication
\* callbacks, at most one object created by the component holds credentials; an
\* object that auth() has replaced no longer holds any.
C11_AtMostOneCredentialHolder ==
  /\ Cardinality(CredentialHolders) <= 1
  /\ CredentialHolders \subseteq {firebaseRef}

---------------------------------------------------------------------------
(* C12 *)

\* C12: auth() called while authenticated with listeners attached stores a new
\* object, detaches no listener and revokes nothing: the listeners are the same
\* after the call, the objects created before keep their credentials, and the
\* call issues neither off() nor unauth(); a later unAuth() detaches the
\* listeners of the user of the object stored at that time, and no listener of
\* another user.
C12_AuthReplacesWithoutCleanup ==
  [][/\ (isAuthed(State) /\ listeners # {} /\ Auth) =>
          /\ firebaseRef' = Len(conns) + 1
          /\ listeners' = listeners
          /\ \A ref \in DOMAIN conns : conns'[ref] = conns[ref]
          /\ credentials' = credentials
          /\ \A ref \in DOMAIN conns : getAuth(State, ref)' = getAuth(State, ref)
          /\ \A i \in DOMAIN calls' : calls'[i].op \notin {"off", "unauth"}
     /\ (isAuthed(State) /\ UnAuth) =>
          LET uid == getAuth(State, firebaseRef)
          IN \A l \in listeners : l \in listeners' <=> l.user # uid]_vars

\* auth() has just replaced an object that holds credentials and through which a
\* listener was attached; the listener is still attached
C12_Witness ==
  /\ lastOp = "auth"
  /\ firebaseRef = Len(conns)
  /\ \E l \in listeners : /\ l.ref = firebaseRef - 1
                          /\ getAuth(State, l.ref) # NoAuth

\* unAuth() has just detached the listeners of the second user and left those of
\* the first, attached through the replaced object
C12_WitnessLaterUnAuth ==
  /\ lastOp = "unAuth"
  /\ Len(calls) = 3
  /\ listeners # {}

---------------------------------------------------------------------------
(* C13 *)

ChildEventTypes == {"child_added", "child_changed", "child_removed"}

\* the number of times callback is attached for event at users/user/my_sessions
SessionAttachments(user, event, callback) ==
  Cardinality({l \in listeners : /\ l.user = user /\ l.attribute = "my_sessions"
                                 /\ l.event = event /\ l.callback = callback})

\* the invocations that hand every entry present under users/user/my_sessions
\* to callback, once each
SessionsHandedTo(user, callbacks) ==
  SetToBag({[callback |-> callback, key |-> key,
             value |-> store[user]["my_sessions"][key]] :
              <<callback, key>> \in
                {c \in callbacks \X Keys : store[user]["my_sessions"][c[2]] # Absent}})

\* C13: registerToSessionUpdates called while authenticated adds its three
\* handlers next to those already attached (a second registration with another
\* callback does not replace the first) and, if the client already holds the
\* location, hands the entries present to the new callback once each; when the
\* data of the location arrives, every callback attached once is handed each
\* entry present once; whenever an entry under my_sessions is then added,
\* changed or removed, each callback attached once for that event is invoked
\* exactly once, with the key of the entry and with its new value on add and
\* change, with null on removal, and no callback is invoked with anything else.
C13_EveryRegisteredCallbackInvokedOnce ==
  [][/\ \A callback \in Callbacks :
          (isAuthed(State) /\ RegisterToSessionUpdatesWith(callback)) =>
            LET user == getAuth(State, firebaseRef)
            IN /\ listeners \subseteq listeners'
               /\ \A event \in ChildEventTypes :
                    SessionAttachments(user, event, callback)' =
                      SessionAttachments(user, event, callback) + 1
               /\ invoked' =
                    IF Location(_selectShard(user), user, "my_sessions") \in synced
                    THEN SessionsHandedTo(user, {callback})
                    ELSE EmptyBag
     /\ \A user \in Users :
          LET location == Location(_selectShard(user), user, "my_sessions")
              attachedOnce == {c \in Callbacks : SessionAttachments(user, "child_added", c) = 1}
          IN (location \in synced' /\ location \notin synced) =>
               /\ UNCHANGED <<store, listeners>>
               /\ attachedOnce = Callbacks => invoked' = SessionsHandedTo(user, Callbacks)
               /\ \A c \in attachedOnce, key \in Keys :
                    store[user]["my_sessions"][key] # Absent =>
                      CopiesIn([callback |-> c, key |-> key,
                                value |-> store[user]["my_sessions"][key]], invoked') = 1
     /\ \A user \in Users, key \in Keys :
          LET old == store[user]["my_sessions"][key]
              new == store'[user]["my_sessions"][key]
              expected == [key |-> key, value |-> IF new = Absent THEN NullValue ELSE new]
          IN (old # new /\ Location(_selectShard(user), user, "my_sessions") \in synced) =>
               /\ \A callback \in Callbacks :
                    CopiesIn([callback |-> callback, key |-> expected.key,
                              value |-> expected.value], invoked') =
                      SessionAttachments(user, EventOf(old, new), callback)
               /\ \A r \in BagToSet(invoked') :
                    r.key = expected.key /\ r.value = expected.value]_vars

\* two different callbacks are registered for u1's sessions, the data of the
\* location has arrived, and the removal of the entry xyz has just been
\* reported: each was invoked once with (xyz, null)
C13_Witness ==
  /\ lastOp = "childEvent"
  /\ store["u1"]["my_sessions"]["xyz"] = Absent
  /\ Location(_selectShard("u1"), "u1", "my_sessions") \in synced
  /\ SessionAttachments("u1", "child_removed", "cb1") = 1
  /\ SessionAttachments("u1", "child_removed", "cb2") = 1
  /\ invoked = SetToBag({[callback |-> cb, key |-> "xyz", value |-> NullValue] :
                           cb \in Callbacks})

\* the bookmarked sessions of u1 have just arrived with two callbacks registered:
\* each was handed the entry xyz once
C13_WitnessInitialList ==
  /\ lastOp = "initialData"
  /\ Location(_selectShard("u1"), "u1", "my_sessions") \in synced
  /\ \A cb \in Callbacks : SessionAttachments("u1", "child_added", cb) = 1
  /\ invoked = SetToBag({[callback |-> cb, key |-> "xyz",
                          value |-> [timestamp |-> Num(900), bookmarked |-> TRUE]] :
                           cb \in Callbacks})

\* a second callback has just been registered at a location the client already
\* holds: it alone was handed the entry xyz
C13_WitnessLateRegistration ==
  /\ lastOp = "subscribe"
  /\ \A cb \in Callbacks : SessionAttachments("u1", "child_added", cb) = 1
  /\ invoked = SetToBag({[callback |-> "cb2", key |-> "xyz",
                          value |-> [timestamp |-> Num(900), bookmarked |-> TRUE]]})

\* toggleSession of the page has just changed the entry xyz of u1, whose data
\* the client holds: the registered callback was invoked once with the new value
C13_WitnessPageWrite ==
  /\ lastOp = "write"
  /\ SessionAttachments("u1", "child_changed", "cb1") = 1
  /\ \E r \in BagToSet(invoked) :
        /\ r.callback = "cb1" /\ r.key = "xyz"
        /\ r.value = store["u1"]["my_sessions"]["xyz"]
        /\ r.value # InitialStore["u1"]["my_sessions"]["xyz"]
        /\ CopiesIn(r, invoked) = 1

---------------------------------------------------------------------------
(* C14 *)

\* C14: with page-visibility detection supported, every change of the page to
\* hidden issues one Firebase.goOffline() and every change to visible one
\* Firebase.goOnline(), whether the component is authenticated or not, and the
\* event changes neither the stored object, the objects' credentials, the
\* listeners nor the clock offset; so after every visibility event, whatever
\* was asked before, the last connection request matches the visibility of the
\* page; nothing but a visibility event changes the visibility.
C14_ConnectionFollowsVisibility ==
  [][/\ VisibilityChange =>
          /\ hidden' = ~hidden
          /\ Len(calls') = 1
          /\ calls'[1].op = (IF hidden' THEN "Firebase.goOffline" ELSE "Firebase.goOnline")
          /\ connection' = (IF hidden' THEN "offline" ELSE "online")
          /\ UNCHANGED <<firebaseRef, clockOffset, conns, credentials, listeners, store,
                         onDisconnect>>
          /\ ~raised'
     /\ lastOp' = "visibilitychange" => (hidden' <=> connection' = "offline")
     /\ ~VisibilityChange => UNCHANGED hidden]_vars

\* the page has just become visible again without credentials on the stored
\* object, after it was hidden
C14_Witness ==
  /\ lastOp = "visibilitychange"
  /\ ~hidden
  /\ connection = "online"
  /\ firebaseRef # Null
  /\ ~isAuthed(State)

\* the page has just been hidden while authenticated with a listener attached
C14_WitnessAuthed ==
  /\ lastOp = "visibilitychange"
  /\ hidden
  /\ connection = "offline"
  /\ isAuthed(State)
  /\ listeners # {}

\* a caller has just run IOFirebase.goOffline() on a visible page: until the next
\* visibility event the requested connection state differs from the visibility
C14_WitnessDirectCall ==
  /\ lastOp = "goOffline"
  /\ ~hidden
  /\ connection = "offline"

---------------------------------------------------------------------------
(* C15 *)

\* C15: for every hash of hex digits crc32 returns and every configured list of
\* at least one URL, the index _selectShard computes is within 0 .. length-1 and
\* the value it returns is the element of the list at that index, never
\* undefined.
C15_SelectedShardIsConfigured ==
  shardResult # NoValue =>
    /\ Len(shardUrls) >= 1
    /\ shardResult.index \in 0..(Len(shardUrls) - 1)
    /\ shardResult.selected # Undefined
    /\ shardResult.selected.url = shardUrls[shardResult.index + 1]
    /\ \E i \in DOMAIN shardUrls : shardResult.selected.url = shardUrls[i]

\* a selection from a list of several URLs has returned the last one, for a hash
\* that does not fit in 31 bits
C15_Witness ==
  /\ shardResult # NoValue
  /\ Len(shardUrls) > 1
  /\ shardHash[1] = 15
  /\ shardResult.index = Len(shardUrls) - 1
  /\ shardResult.selected = [url |-> shardUrls[Len(shardUrls)]]

---------------------------------------------------------------------------
(* C17 *)

\* C17: a subscribe call made while isAuthed() is false, the time between an
\* auth() call and its success callback included, attaches nothing, issues no
\* client call and raises nothing; and it is not remembered: a handler is only
\* ever attached by a subscribe call made while authenticated, so the success
\* callback of an authentication, like every other later step, attaches no
\* handler for the call that was dropped.
C17_SubscribeWhileNotAuthedIsDropped ==
  [][/\ (~isAuthed(State) /\ SubscribeCall) =>
          (listeners' = listeners /\ calls' = <<>> /\ ~raised')
     /\ ~(listeners' \subseteq listeners) => (isAuthed(State) /\ SubscribeCall)
     /\ (AuthSucceeds \/ AuthFails) => listeners' = listeners]_vars

\* a subscribe method has just been called between an auth() call and the
\* answer to its authentication request: nothing was attached
C17_Witness ==
  /\ lastOp = "subscribe"
  /\ firebaseRef # Null
  /\ conns[firebaseRef].authPending
  /\ ~isAuthed(State)
  /\ calls = <<>>
  /\ ~raised
  /\ listeners = {}

---------------------------------------------------------------------------
(* C18 *)

\* C18 (as claimed): once unAuth() has been called, isAuthed() stays false until
\* auth() is called again, whatever callbacks of earlier auth() calls arrive: no
\* step other than an auth() call leads to an authenticated state from the
\* state unAuth() has just left, nor from any state without a stored object
\* (the states a completed unAuth() leads to, until the next auth()).
C18_NotAuthedAfterUnAuthUntilAuth ==
  [][(~Auth /\ (lastOp = "unAuth" \/ firebaseRef = Null)) => ~isAuthed(State)']_vars

---------------------------------------------------------------------------
(* C19 *)

\* C19 (as claimed): when the offset read of the most recently created object
\* has been answered, the answer to the read of an older object does not change
\* clockOffset, so that with all reads answered clockOffset is the offset read
\* on the most recent object; only the answer to an offset read changes
\* clockOffset, and unAuth() leaves it unchanged.
C19_LatestOffsetReadWins ==
  [][/\ \A ref \in DOMAIN conns, snapVal \in Offsets :
          (/\ OffsetDeliveredOn(ref, snapVal)
           /\ ref < Len(conns)
           /\ ~conns[Len(conns)].offsetPending) => clockOffset' = clockOffset
     /\ clockOffset' # clockOffset => OffsetDelivered
     /\ UnAuth => clockOffset' = clockOffset]_vars

====
